---- MODULE Spec2Model ----
(***************************************************************************)
(* Model of src/src/extension.ts: the environment probe (testElixir), the  *)
(* conflict detector, the client bootstrapper (activate), deactivate and   *)
(* the debug-info command (copyDebugInfo).                                 *)
(*                                                                         *)
(* Strings built by concatenation or template literals are sequences of    *)
(* their pieces, in order.  A handler runs to completion on the host's     *)
(* single extension thread, so each handler is one action; the host-API    *)
(* calls it makes are recorded, in program order, in `log`.                *)
(***************************************************************************)
EXTENDS Integers, Sequences, FiniteSets, TLC

VARIABLES
  host,            \* the environment: processes, PATH, registry, platform
  languageClient,  \* module-level handle: 0 is undefined, k > 0 is clients[k]
  clients,         \* the LanguageClient objects constructed so far
  subscriptions,   \* context.subscriptions
  commands,        \* the host's command registry, in registration order
  clipboard,       \* the system clipboard's text
  log,             \* host-API calls made by the last handler invocation
  probe,           \* the value the last call of testElixir returned
  lastCall         \* the last handler invoked, whether it threw, its result

vars == <<host, languageClient, clients, subscriptions, commands, clipboard,
          log, probe, lastCall>>

(* ------------------------------ bounds -------------------------------- *)

MaxActivations == 2
MaxStops == 2

(* ----------------------- values of the environment -------------------- *)

Null == "null"

EvalFlag == " -e \"\""
VersionFlag == " --version"

ConflictingExtensions ==
  <<"mjmcloug.vscode-elixir", "elixir-lsp.elixir-ls",
    "sammkj.vscode-elixir-formatter">>

DebugInfoExtension == "jakebecker.elixir-ls"

ExtensionIds ==
  {ConflictingExtensions[i] : i \in 1..Len(ConflictingExtensions)}
    \cup {DebugInfoExtension}

\* the manifest data the registry returns for an installed extension
packageJSON(extensionId) ==
  [version |-> IF extensionId = DebugInfoExtension THEN "0.2.25" ELSE "1.0.0"]

Platforms == {"win32", "linux", "darwin"}
Releases == {"10.0.19041"}
SearchPaths == {"/usr/bin:/bin", "/usr/local/bin:/usr/bin"}
ResolvedPaths == {"/usr/local/bin/elixir"}

\* what running a process can do: throw (not found, non-zero exit) or
\* return the captured standard output
Threw == [threw |-> TRUE, stdout |-> <<>>]
Returned(out) == [threw |-> FALSE, stdout |-> out]

EvalOutcomes == {Threw, Returned(<<>>), Returned(<<"warning: noise">>)}
VersionOutcomes == {Threw, Returned(<<"Elixir 1.10.3 (compiled with Erlang/OTP 22)">>)}

Hosts ==
  { h \in [execBare    : EvalOutcomes,
           whichElixir : ResolvedPaths \cup {Null},
           execPath    : EvalOutcomes,
           execVersion : VersionOutcomes,
           installed   : SUBSET ExtensionIds,
           platform    : Platforms,
           release     : Releases,
           PATH        : SearchPaths,
           extensionPath : {"/ext"}] :
      \* without a resolved path there is nothing to run
      /\ h.whichElixir = Null => h.execPath = Threw
      \* shell.which searches PATH: it resolves the runtime exactly when
      \* a directory of PATH holds it
      /\ (h.whichElixir # Null) <=> (h.PATH = "/usr/local/bin:/usr/bin") }

(* ----------------------------- host API ------------------------------- *)

Call(api, arg, client) == [api |-> api, arg |-> arg, client |-> client]

\* child_process.execSync: the outcome the environment gives a command line
execSync(h, cmdline) ==
  IF cmdline = <<"elixir", EvalFlag>> THEN h.execBare
  ELSE IF cmdline = <<"elixir", VersionFlag>> THEN h.execVersion
  ELSE IF cmdline[1] = h.whichElixir /\ cmdline[2] = EvalFlag THEN h.execPath
  ELSE Threw

\* vscode.extensions.getExtension: TRUE when it returns an extension
getExtension(h, extensionId) == extensionId \in h.installed

\* context.asAbsolutePath: the extension's directory joined with a
\* relative path given as its segments ("." segments drop out)
asAbsolutePath(h, rel) ==
  <<h.extensionPath>> \o SelectSeq(rel, LAMBDA s : s # ".")

Count(s, P(_)) == Len(SelectSeq(s, P))
Range(s) == {s[i] : i \in 1..Len(s)}

(* ------------------------- environment probe -------------------------- *)

FailedMessage ==
  <<"Failed to run 'elixir' command. ElixirLS will probably fail to launch. Logged PATH to Development Console.">>

FailedDiagnostic(h) ==
  <<"Failed to run 'elixir' command. Current process's PATH: ", h.PATH>>

ExtraneousPrintMessage ==
  <<"Running 'elixir' command caused extraneous print to stdout. See VS Code's developer console for details.">>

ExtraneousPrintDiagnostic(buf) ==
  <<"Running 'elixir -e \"\"' printed to stdout:\n">> \o buf

\* mutant: the try/catch is missing, so a failed execution propagates
testElixirCommand_NoCatch(h, command) ==
  LET cmdline == <<command, EvalFlag>>
      out == execSync(h, cmdline)
  IN [threw |-> out.threw, isFalse |-> FALSE, buf |-> out.stdout,
      log |-> <<Call("execSync", cmdline, 0)>>]

\* isFalse: the function returned false; otherwise buf is the Buffer
testElixirCommand(h, command) ==
  LET cmdline == <<command, EvalFlag>>
      out == execSync(h, cmdline)
  IN [threw |-> FALSE, isFalse |-> out.threw, buf |-> out.stdout,
      log |-> <<Call("execSync", cmdline, 0)>>]

\* mutant: the retry is not restricted to a failed first execution
testElixirRun_AlwaysRetry(h) ==
  LET first == testElixirCommand(h, "elixir")
      elixirPath == h.whichElixir
      whichLog == <<Call("shell.which", <<"elixir">>, 0)>>
      second == testElixirCommand(h, elixirPath)
  IN IF first.threw THEN first
     ELSE IF elixirPath = Null THEN [first EXCEPT !.log = @ \o whichLog]
     ELSE [second EXCEPT !.log = first.log \o whichLog \o @]

\* lines 29-36: the value of testResult when the report is made
testElixirRun(h) ==
  LET first == testElixirCommand(h, "elixir")
      elixirPath == h.whichElixir
      whichLog == <<Call("shell.which", <<"elixir">>, 0)>>
      second == testElixirCommand(h, elixirPath)
  IN IF first.threw \/ ~first.isFalse THEN first
     ELSE IF elixirPath = Null THEN [first EXCEPT !.log = @ \o whichLog]
     ELSE [second EXCEPT !.log = first.log \o whichLog \o @]

\* mutant: the failure branch forgets the console diagnostic
testElixirReport_NoDiagnostic(h, testResult) ==
  IF testResult.isFalse
  THEN [ret |-> FALSE,
        log |-> <<Call("showErrorMessage", FailedMessage, 0)>>]
  ELSE IF Len(testResult.buf) > 0
  THEN [ret |-> FALSE,
        log |-> <<Call("showErrorMessage", ExtraneousPrintMessage, 0),
                  Call("console.warn", ExtraneousPrintDiagnostic(testResult.buf), 0)>>]
  ELSE [ret |-> TRUE, log |-> <<>>]

\* mutant: the output-length test is missing, any successful run passes
testElixirReport_IgnoresOutput(h, testResult) ==
  IF testResult.isFalse
  THEN [ret |-> FALSE,
        log |-> <<Call("showErrorMessage", FailedMessage, 0),
                  Call("console.warn", FailedDiagnostic(h), 0)>>]
  ELSE [ret |-> TRUE, log |-> <<>>]

\* lines 38-56; a Buffer is truthy whatever its length
testElixirReport(h, testResult) ==
  IF testResult.isFalse
  THEN [ret |-> FALSE,
        log |-> <<Call("showErrorMessage", FailedMessage, 0),
                  Call("console.warn", FailedDiagnostic(h), 0)>>]
  ELSE IF Len(testResult.buf) > 0
  THEN [ret |-> FALSE,
        log |-> <<Call("showErrorMessage", ExtraneousPrintMessage, 0),
                  Call("console.warn", ExtraneousPrintDiagnostic(testResult.buf), 0)>>]
  ELSE [ret |-> TRUE, log |-> <<>>]

testElixir(h) ==
  LET testResult == testElixirRun(h)
      report == testElixirReport(h, testResult)
  IN IF testResult.threw
     THEN [threw |-> TRUE, ret |-> FALSE, log |-> testResult.log]
     ELSE [threw |-> FALSE, ret |-> report.ret,
           log |-> testResult.log \o report.log]

(* -------------------------- conflict detector ------------------------- *)

ConflictWarning(extensionId) ==
  <<"Warning: ", extensionId,
    " is not compatible with ElixirLS Fork, please uninstall ", extensionId>>

\* mutant: the presence test is inverted
detectConflictingExtension_Inverted(h, extensionId) ==
  <<Call("getExtension", <<extensionId>>, 0)>> \o
    (IF ~getExtension(h, extensionId)
     THEN <<Call("showErrorMessage", ConflictWarning(extensionId), 0)>>
     ELSE <<>>)

detectConflictingExtension(h, extensionId) ==
  <<Call("getExtension", <<extensionId>>, 0)>> \o
    (IF getExtension(h, extensionId)
     THEN <<Call("showErrorMessage", ConflictWarning(extensionId), 0)>>
     ELSE <<>>)

(* -------------------------- client bootstrapper ----------------------- *)

\* mutant: the platform value is compared with the wrong literal
serverCommand_WrongLiteral(platform) ==
  IF platform = "windows" THEN "language_server.bat" ELSE "language_server.sh"

\* lines 70-71
serverCommand(platform) ==
  IF platform = "win32" THEN "language_server.bat" ELSE "language_server.sh"

\* lines 73-75
serverOpts(h) ==
  [command |-> asAbsolutePath(h, <<".", "elixir-ls-release",
                                   serverCommand(h.platform)>>)]

\* lines 79-82
serverOptions(h) == [run |-> serverOpts(h), debug |-> serverOpts(h)]

FileWatcherGlob == "**/*.{ex,exs,erl,yrl,xrl,eex}"

\* lines 85-101
clientOptions ==
  [documentSelector |-> <<[language |-> "elixir", scheme |-> "file"],
                          [language |-> "elixir", scheme |-> "untitled"]>>,
   revealOutputChannelOn |-> "Never",
   synchronize |-> [configurationSection |-> "elixirLS",
                    fileEvents |-> <<FileWatcherGlob>>]]

\* lines 104-109: the object `new LanguageClient(...)` makes, not yet started
NewClient(h) ==
  [id |-> "elixirLS", name |-> "ElixirLS",
   serverOptions |-> serverOptions(h), clientOptions |-> clientOptions,
   starts |-> 0, stops |-> 0]

\* the Disposable that start() of clients[k] returns
Disposable(k) == [disposes |-> k]

\* every client with the start and stop calls of a log applied to it
Applied(cs, calls) ==
  [k \in DOMAIN cs |->
     [cs[k] EXCEPT
        !.starts = @ + Count(calls, LAMBDA c : c.api = "start" /\ c.client = k),
        !.stops  = @ + Count(calls, LAMBDA c : c.api = "stop" /\ c.client = k)]]

\* lines 62-66
activateChecks(h) ==
  LET t == testElixir(h)
  IN IF t.threw THEN t
     ELSE [t EXCEPT !.log =
             @ \o detectConflictingExtension(h, ConflictingExtensions[1])
               \o detectConflictingExtension(h, ConflictingExtensions[2])
               \o detectConflictingExtension(h, ConflictingExtensions[3])]

\* mutant: the Disposable that start returns is not registered
activateBoot_NoPush(h, k) ==
  <<Call("registerCommand", <<"extension.copyDebugInfo", "copyDebugInfo">>, 0),
    Call("os.platform", <<>>, 0),
    Call("asAbsolutePath",
         <<"./elixir-ls-release/", serverCommand(h.platform)>>, 0),
    Call("createFileSystemWatcher", <<FileWatcherGlob>>, 0),
    Call("new LanguageClient", <<"elixirLS", "ElixirLS">>, k),
    Call("start", <<>>, k)>>

\* lines 68-114, for the client that becomes clients[k]
activateBoot(h, k) ==
  <<Call("registerCommand", <<"extension.copyDebugInfo", "copyDebugInfo">>, 0),
    Call("os.platform", <<>>, 0),
    Call("asAbsolutePath",
         <<"./elixir-ls-release/", serverCommand(h.platform)>>, 0),
    Call("createFileSystemWatcher", <<FileWatcherGlob>>, 0),
    Call("new LanguageClient", <<"elixirLS", "ElixirLS">>, k),
    Call("start", <<>>, k),
    Call("subscriptions.push", <<>>, k)>>

(* ------------------------------ deactivate ---------------------------- *)

\* mutant: the guard on the handle is missing; stop on undefined throws
deactivate_NoGuard(lc) ==
  IF lc = 0
  THEN [threw |-> TRUE, ret |-> 0, log |-> <<Call("stop", <<>>, lc)>>,
        languageClient |-> lc]
  ELSE [threw |-> FALSE, ret |-> lc, log |-> <<Call("stop", <<>>, lc)>>,
        languageClient |-> lc]

\* mutant: the handle is cleared once the client is stopped
deactivate_ClearsHandle(lc) ==
  IF lc = 0
  THEN [threw |-> FALSE, ret |-> 0, log |-> <<>>, languageClient |-> lc]
  ELSE [threw |-> FALSE, ret |-> lc, log |-> <<Call("stop", <<>>, lc)>>,
        languageClient |-> 0]

\* lines 117-122, with the handle at lc: ret 0 is undefined, ret k > 0 is
\* the Thenable that stop() of clients[k] returned
deactivate(lc) ==
  IF lc = 0
  THEN [threw |-> FALSE, ret |-> 0, log |-> <<>>, languageClient |-> lc]
  ELSE [threw |-> FALSE, ret |-> lc, log |-> <<Call("stop", <<>>, lc)>>,
        languageClient |-> lc]

(* --------------------------- debug-info command ----------------------- *)

\* lines 135-139
DebugMessage(h, elixirVersion) ==
  <<"\n  * Elixir & Erlang versions (elixir --version): ">> \o elixirVersion
    \o <<"\n  * VSCode ElixirLS Fork version: ",
         packageJSON(DebugInfoExtension).version,
         "\n  * Operating System Version: ", h.platform, " ", h.release,
         "\n  ">>

\* lines 131-143: execSync is not guarded, and neither is the lookup
copyDebugInfo(h) ==
  LET cmdline == <<"elixir", VersionFlag>>
      elixirVersion == execSync(h, cmdline)
      ran == <<Call("execSync", cmdline, 0)>>
      looked == <<Call("getExtension", <<DebugInfoExtension>>, 0)>>
      message == DebugMessage(h, elixirVersion.stdout)
  IN IF elixirVersion.threw
     THEN [threw |-> TRUE, log |-> ran, wrote |-> FALSE, text |-> <<>>]
     ELSE IF ~getExtension(h, DebugInfoExtension)
     THEN [threw |-> TRUE, log |-> ran \o looked, wrote |-> FALSE,
           text |-> <<>>]
     ELSE [threw |-> FALSE,
           log |-> ran \o looked \o
                   <<Call("showInformationMessage",
                          <<"Copied to clipboard: ">> \o message, 0),
                     Call("clipboard.writeText", message, 0)>>,
           wrote |-> TRUE, text |-> message]

(* ------------------------------ the machine --------------------------- *)

Init ==
  /\ host \in Hosts
  /\ languageClient = 0
  /\ clients = <<>>
  /\ subscriptions = <<>>
  /\ commands = <<>>
  /\ clipboard = <<>>
  /\ log = <<>>
  /\ probe = "none"
  /\ lastCall = [name |-> "none", threw |-> FALSE, ret |-> 0]

\* the host calls activate(context)
Activate ==
  /\ Len(clients) < MaxActivations
  /\ LET checks == activateChecks(host)
         k == Len(clients) + 1
         boot == activateBoot(host, k)
     IN IF checks.threw
        THEN /\ log' = checks.log
             /\ lastCall' = [name |-> "activate", threw |-> TRUE, ret |-> 0]
             /\ UNCHANGED <<languageClient, clients, subscriptions, commands,
                            probe>>
        ELSE /\ log' = checks.log \o boot
             /\ probe' = IF checks.ret THEN "true" ELSE "false"
             /\ commands' = commands \o
                  SelectSeq([i \in 1..Len(boot) |-> boot[i].arg],
                            LAMBDA a : a = <<"extension.copyDebugInfo",
                                             "copyDebugInfo">>)
             /\ clients' = Applied(Append(clients, NewClient(host)), boot)
             /\ languageClient' = k
             /\ subscriptions' = subscriptions \o
                  [i \in 1..Count(boot, LAMBDA c : c.api = "subscriptions.push")
                     |-> Disposable(k)]
             /\ lastCall' = [name |-> "activate", threw |-> FALSE, ret |-> 0]
  /\ UNCHANGED <<host, clipboard>>

\* the host (or a caller of the exported function) calls deactivate()
Deactivate ==
  /\ IF languageClient = 0 THEN TRUE
     ELSE clients[languageClient].stops < MaxStops
  /\ LET r == deactivate(languageClient)
     IN /\ log' = (IF r.threw THEN <<>> ELSE r.log)
        /\ clients' = (IF r.threw THEN clients ELSE Applied(clients, r.log))
        /\ languageClient' = r.languageClient
        /\ lastCall' = [name |-> "deactivate", threw |-> r.threw,
                        ret |-> r.ret]
  /\ UNCHANGED <<host, subscriptions, commands, clipboard, probe>>

\* the user invokes the registered command extension.copyDebugInfo
CopyDebugInfo ==
  /\ \E i \in 1..Len(commands) :
        commands[i] = <<"extension.copyDebugInfo", "copyDebugInfo">>
  /\ LET r == copyDebugInfo(host)
     IN /\ log' = r.log
        /\ clipboard' = (IF r.wrote THEN r.text ELSE clipboard)
        /\ lastCall' = [name |-> "copyDebugInfo", threw |-> r.threw,
                        ret |-> 0]
  /\ UNCHANGED <<host, languageClient, clients, subscriptions, commands,
                 probe>>

Next == Activate \/ Deactivate \/ CopyDebugInfo

Spec == Init /\ [][Next]_vars

(* ------------------------------- claims ------------------------------- *)

Shown(msg) ==
  Count(log, LAMBDA c : c.api = "showErrorMessage" /\ c.arg = msg)
Calls(api) == SelectSeq(log, LAMBDA c : c.api = api)
AfterActivate == lastCall.name = "activate"
AfterDeactivate == lastCall.name = "deactivate"
AfterCopyDebugInfo == lastCall.name = "copyDebugInfo"
Installed(i) == ConflictingExtensions[i] \in host.installed

\* the outcome of the last process execution the last handler performed
LastExecOutcome ==
  LET execs == Calls("execSync")
  IN execSync(host, execs[Len(execs)].arg)

\* C1: whatever the probe finds and whichever conflicting extensions are
\* installed, an activation returns normally having constructed one
\* language client and called start on it exactly once.
C1_ClientStartedRegardless ==
  AfterActivate =>
    /\ ~lastCall.threw
    /\ Len(Calls("new LanguageClient")) = 1
    /\ Len(Calls("start")) = 1
    /\ languageClient \in 1..Len(clients)
    /\ Calls("start")[1].client = languageClient
    /\ clients[languageClient].starts = 1

C1_Witness ==
  /\ AfterActivate
  /\ host.execBare.threw /\ host.whichElixir = Null
  /\ \A i \in 1..3 : Installed(i)
  /\ Shown(FailedMessage) = 1
  /\ clients[languageClient].starts = 1

\* C2: when the bare command fails and the path search resolves nothing,
\* or the resolved path fails too, the activation shows exactly one
\* "Failed to run" warning, writes exactly one console diagnostic, which
\* holds the process's PATH, and the probe returns false.
C2_UnavailableRuntimeWarnsOnce ==
  (AfterActivate /\ host.execBare.threw
     /\ (host.whichElixir = Null \/ host.execPath.threw)) =>
    /\ Shown(FailedMessage) = 1
    /\ Shown(ExtraneousPrintMessage) = 0
    /\ Len(Calls("console.warn")) = 1
    /\ Calls("console.warn")[1].arg = FailedDiagnostic(host)
    /\ host.PATH \in Range(Calls("console.warn")[1].arg)
    /\ probe = "false"

C2_Witness ==
  /\ AfterActivate
  /\ host.execBare.threw /\ host.whichElixir # Null /\ host.execPath.threw
  /\ Len(Calls("execSync")) = 2
  /\ Shown(FailedMessage) = 1
  /\ probe = "false"

\* C3: when the last runtime invocation succeeds with non-empty output the
\* "extraneous print" warning is shown and the "failed to run" warning is
\* not, and the probe returns false; when it succeeds with empty output
\* neither warning is shown and the probe returns true; one activation
\* never shows both warnings.
C3_PrintWarningExclusive ==
  AfterActivate =>
    /\ (~LastExecOutcome.threw /\ Len(LastExecOutcome.stdout) > 0) =>
         /\ Shown(ExtraneousPrintMessage) = 1
         /\ Shown(FailedMessage) = 0
         /\ probe = "false"
    /\ (~LastExecOutcome.threw /\ Len(LastExecOutcome.stdout) = 0) =>
         /\ Shown(ExtraneousPrintMessage) = 0
         /\ Shown(FailedMessage) = 0
         /\ probe = "true"
    /\ ~(Shown(ExtraneousPrintMessage) > 0 /\ Shown(FailedMessage) > 0)

C3_Witness ==
  /\ AfterActivate
  /\ host.execBare.threw /\ host.whichElixir # Null
  /\ ~host.execPath.threw /\ Len(host.execPath.stdout) > 0
  /\ Shown(ExtraneousPrintMessage) = 1
  /\ probe = "false"

\* C4: an activation shows exactly one conflict warning naming a checked
\* identifier when the registry holds it and none when it does not; the
\* number of conflict warnings is the number of checked identifiers
\* installed.
C4_ConflictWarningPerInstalled ==
  AfterActivate =>
    /\ \A i \in 1..Len(ConflictingExtensions) :
         Count(log, LAMBDA c : /\ c.api = "showErrorMessage"
                               /\ c.arg[1] = "Warning: "
                               /\ ConflictingExtensions[i] \in Range(c.arg))
           = IF Installed(i) THEN 1 ELSE 0
    /\ Count(log, LAMBDA c : c.api = "showErrorMessage"
                               /\ c.arg[1] = "Warning: ")
         = Cardinality({i \in 1..Len(ConflictingExtensions) : Installed(i)})

C4_Witness ==
  /\ AfterActivate
  /\ Installed(1) /\ ~Installed(2) /\ Installed(3)
  /\ Shown(ConflictWarning(ConflictingExtensions[1])) = 1
  /\ Shown(ConflictWarning(ConflictingExtensions[2])) = 0
  /\ Shown(ConflictWarning(ConflictingExtensions[3])) = 1

\* C5: the launch command of the client an activation constructs ends in
\* language_server.bat exactly when the platform value is win32 and in
\* language_server.sh otherwise; the run and the debug descriptors hold
\* the same command and nothing else (no arguments).
C5_LauncherByPlatform ==
  AfterActivate =>
    LET so == clients[languageClient].serverOptions
        last == so.run.command[Len(so.run.command)]
    IN /\ (last = "language_server.bat") <=> (host.platform = "win32")
       /\ (last = "language_server.sh") <=> (host.platform # "win32")
       /\ so.debug = so.run
       /\ DOMAIN so = {"run", "debug"}
       /\ DOMAIN so.run = {"command"}

C5_Witness ==
  /\ AfterActivate
  /\ host.platform = "win32"
  /\ clients[languageClient].serverOptions.run.command
       = <<"/ext", "elixir-ls-release", "language_server.bat">>

\* C6: deactivate, called when no activation has happened, does not throw,
\* calls stop on nothing and returns undefined.
C6_DeactivateBeforeActivate ==
  (AfterDeactivate /\ clients = <<>> /\ commands = <<>>) =>
    /\ ~lastCall.threw
    /\ lastCall.ret = 0
    /\ Len(Calls("stop")) = 0
    /\ log = <<>>

C6_Witness ==
  /\ AfterDeactivate
  /\ clients = <<>> /\ commands = <<>>
  /\ languageClient = 0
  /\ lastCall.ret = 0

\* C7: whenever the debug-info command has been invoked, it returned
\* normally and the clipboard holds the runtime's version string, the
\* extension's version, the platform and the release.
C7_DebugInfoOnClipboard ==
  AfterCopyDebugInfo =>
    /\ ~lastCall.threw
    /\ Range(host.execVersion.stdout) \subseteq Range(clipboard)
    /\ packageJSON(DebugInfoExtension).version \in Range(clipboard)
    /\ host.platform \in Range(clipboard)
    /\ host.release \in Range(clipboard)

\* C8 as first stated: the handle is unset again after deactivate, and no
\* client is stopped twice.
C8_HandleClearedAtDeactivate ==
  /\ AfterDeactivate => languageClient = 0
  /\ \A k \in 1..Len(clients) : clients[k].stops <= 1

\* C8: the handle is unset exactly until the first activate; every activate
\* assigns it the client it has just constructed; deactivate leaves it as
\* it is, so each deactivate after an activate calls stop on that client
\* once more.
C8_HandleSetNeverCleared ==
  [][ /\ (clients = <<>>) <=> (languageClient = 0)
      /\ lastCall'.name = "activate" =>
           /\ Len(clients') = Len(clients) + 1
           /\ languageClient' = Len(clients')
      /\ lastCall'.name = "deactivate" =>
           /\ languageClient' = languageClient
           /\ languageClient # 0 =>
                clients'[languageClient].stops
                  = clients[languageClient].stops + 1 ]_vars

C8_Witness ==
  /\ AfterDeactivate
  /\ languageClient = 1
  /\ clients[1].stops = 2

\* C9: the probe runs the bare command first; it runs a second process
\* exactly when the first failed and the path search returned a path, and
\* then it runs that path; it never runs a third; after a successful first
\* execution there is no path search; the probe's verdict is that of the
\* last execution performed.
C9_OneOrTwoExecutions ==
  AfterActivate =>
    LET execs == Calls("execSync")
    IN /\ Len(execs) \in {1, 2}
       /\ execs[1].arg = <<"elixir", EvalFlag>>
       /\ (Len(execs) = 2) <=>
            (host.execBare.threw /\ host.whichElixir # Null)
       /\ Len(execs) = 2 => execs[2].arg = <<host.whichElixir, EvalFlag>>
       /\ ~host.execBare.threw => Len(Calls("shell.which")) = 0
       /\ probe = IF ~LastExecOutcome.threw /\ LastExecOutcome.stdout = <<>>
                  THEN "true" ELSE "false"

C9_Witness ==
  /\ AfterActivate
  /\ Len(Calls("execSync")) = 2
  /\ host.execBare.threw /\ host.execPath = Returned(<<>>)
  /\ probe = "true"

\* C10: an activation constructs the client, then starts it, once, then
\* pushes the Disposable of that start onto the subscriptions, its only
\* entry; a deactivate after an activate calls stop on the client of the
\* handle and returns what stop returned; a stopped client was started.
C10_StartThenRegisterThenStop ==
  /\ AfterActivate =>
       /\ \E i \in 1..Len(log) :
            /\ log[i] = Call("new LanguageClient", <<"elixirLS", "ElixirLS">>,
                             languageClient)
            /\ \E j \in (i + 1)..Len(log) :
                 /\ log[j] = Call("start", <<>>, languageClient)
                 /\ \E m \in (j + 1)..Len(log) :
                      log[m] = Call("subscriptions.push", <<>>, languageClient)
       /\ Len(Calls("new LanguageClient")) = 1
       /\ Len(Calls("start")) = 1
       /\ Len(Calls("subscriptions.push")) = 1
       /\ subscriptions[Len(subscriptions)] = Disposable(languageClient)
  /\ Len(subscriptions) = Len(clients)
  /\ (AfterDeactivate /\ clients # <<>>) =>
       /\ log = <<Call("stop", <<>>, languageClient)>>
       /\ lastCall.ret = languageClient
       /\ ~lastCall.threw
  /\ \A k \in 1..Len(clients) :
       /\ clients[k].starts = 1
       /\ clients[k].stops > 0 => clients[k].starts > 0

C10_Witness ==
  /\ AfterDeactivate
  /\ Len(clients) = 2
  /\ languageClient = 2
  /\ lastCall.ret = 2
  /\ clients[2].stops = 1
  /\ subscriptions = <<Disposable(1), Disposable(2)>>

====
